---- MODULE Spec2Model ----
(***************************************************************************)
(* Model of the q language server's query facade                           *)
(* (server/src/qLangServer.ts, server/src/util/index.ts), of the scope     *)
(* rules of its linter (server/src/linter/checks.ts) and of the            *)
(* extension's data source panel and execution console                     *)
(* (src/panels/datasource.ts, src/utils/executionConsole.ts).              *)
(*                                                                         *)
(* A document is the token sequence the parser produced for its text.      *)
(* Token objects are compared by reference in the code; here a token is    *)
(* referred to by its index in the sequence, and a lambda object (the      *)
(* value of token.scope and token.lambda) by its id.                       *)
(* Strings are sequences of one-character strings, so that startsWith and  *)
(* replace are computed, not assumed.                                      *)
(***************************************************************************)
EXTENDS Integers, Sequences, FiniteSets, TLC

VARIABLES documents, request, source, found, response,
          panels, currentPanel, dataSourceFile, channels, current

\* the statics of the extension's DataSourcesPanel and ExecutionConsole and
\* the objects they refer to
extension == <<panels, currentPanel, dataSourceFile, channels, current>>

vars == <<documents, request, source, found, response, extension>>

-----------------------------------------------------------------------------
(* Bounds *)

MaxTokens == 3

\* webview panels and output channels created in one run
MaxPanels == 3

MaxChannels == 3

MaxLine == 2

MaxColumn == 2

-----------------------------------------------------------------------------
(* Tokens, as the parser hands them to the server *)

NoId == <<>>

NoScope == [id |-> 0, nullary |-> FALSE]

\* lambda objects: one without a parameter list (nullary), one with
Lambdas == {[id |-> 1, nullary |-> TRUE], [id |-> 2, nullary |-> FALSE]}

\* the implicit parameter names of a nullary lambda
ImplicitNames == {<<"x">>, <<"y">>, <<"z">>}

OtherName == <<"a">>

NewNames == {<<"n">>, <<"m">>}

Scopes == {NoScope} \cup Lambdas

\* The forms <<tokenType, kind, identifierKind, identifier, image, scope>>
\* of the tokens of a document that uses the names in `names`:
\*  - identifiers read or assigned, in any scope;
\*  - an identifier that is an assignment target but may not be assigned
\*    (Unassignable), in any scope;
\*  - a literal used as an assignment target (tagged Unassignable) and an
\*    operator, which carry no identifier.
TokenForms(names) ==
         {<<"Identifier", k, "None", n, n, sc>> :
              k \in {"Assignment", "Reference"}, n \in names, sc \in Scopes}
    \cup {<<"Identifier", "Assignment", "Unassignable", OtherName, OtherName, sc>> :
              sc \in Scopes}
    \cup {<<"Literal", "Assignment", "Unassignable", NoId, <<"1">>, NoScope>>,
          <<"Operator", "Reference", "None", NoId, <<"+">>, NoScope>>}

\* a token of the given form at the given 1-based span; a span field of 0
\* stands for a missing (undefined) one
MkToken(form, span) ==
    [tokenType |-> form[1], kind |-> form[2], identifierKind |-> form[3],
     identifier |-> form[4], image |-> form[5],
     scope |-> form[6], lambda |-> NoScope, namespace |-> <<>>,
     startLine |-> span[1], startColumn |-> span[2],
     endLine |-> span[3], endColumn |-> span[4]]

\* Token i of a one-line document "t1;t2;t3" is one character wide, at
\* 1-based column 2i-1.
SlotSpan(i) == <<1, 2 * i - 1, 1, 2 * i - 1>>

\* the document with the given forms in its slots
LaidOut(forms) == [i \in 1..Len(forms) |-> MkToken(forms[i], SlotSpan(i))]

-----------------------------------------------------------------------------
(* util/index.ts *)

OrOne(n) == IF n = 0 THEN 1 ELSE n

\* the mapping with the end column decremented like the start column
rangeFromToken_EndDecremented(token) ==
    [start |-> [line |-> OrOne(token.startLine) - 1,
                character |-> OrOne(token.startColumn) - 1],
     end |-> [line |-> OrOne(token.endLine) - 1,
              character |-> OrOne(token.endColumn) - 1]]

rangeFromToken(token) ==
    [start |-> [line |-> OrOne(token.startLine) - 1,
                character |-> OrOne(token.startColumn) - 1],
     end |-> [line |-> OrOne(token.endLine) - 1,
              character |-> OrOne(token.endColumn)]]

\* isLocal with the implicit names taken as local in any lambda
isLocal_AnyLambda(tokens, target) ==
    IF target.scope.id = 0 THEN FALSE
    ELSE IF target.identifier \in {<<"x">>, <<"y">>, <<"z">>} THEN TRUE
    ELSE \E i \in 1..Len(tokens) :
            /\ tokens[i].kind = "Assignment"
            /\ tokens[i].scope.id = target.scope.id
            /\ tokens[i].identifier = target.identifier

\* isLocal with the third implicit name left out
isLocal_ForgetsZ(tokens, target) ==
    IF target.scope.id = 0 THEN FALSE
    ELSE IF target.scope.nullary
            /\ (target.identifier = <<"x">> \/ target.identifier = <<"y">>)
         THEN TRUE
    ELSE \E i \in 1..Len(tokens) :
            /\ tokens[i].kind = "Assignment"
            /\ tokens[i].scope.id = target.scope.id
            /\ tokens[i].identifier = target.identifier

isLocal(tokens, target) ==
    IF target.scope.id = 0 THEN FALSE
    ELSE IF target.scope.nullary
            /\ (target.identifier = <<"x">>
                \/ target.identifier = <<"y">>
                \/ target.identifier = <<"z">>) THEN TRUE
    ELSE \E i \in 1..Len(tokens) :
            /\ tokens[i].kind = "Assignment"
            /\ tokens[i].scope.id = target.scope.id
            /\ tokens[i].identifier = target.identifier

\* Array.prototype.find: the first index that satisfies P, 0 for undefined
FindFirst(n, P(_)) ==
    IF \E i \in 1..n : P(i)
    THEN CHOOSE i \in 1..n : P(i) /\ \A j \in 1..(i - 1) : ~P(j)
    ELSE 0

positionToToken(tokens, position) ==
    LET Hit(i) ==
            LET r == rangeFromToken(tokens[i])
            IN  /\ r.start.line <= position.line
                /\ r.end.line >= position.line
                /\ r.start.character <= position.character
                /\ r.end.character >= position.character
    IN  FindFirst(Len(tokens), Hit)

StartsWith(s, p) ==
    /\ Len(p) <= Len(s)
    /\ SubSeq(s, 1, Len(p)) = p

\* String.prototype.replace(pattern, ""): removes the first occurrence
RemoveFirst(s, pat) ==
    LET At(i) == i + Len(pat) - 1 <= Len(s) /\ SubSeq(s, i, i + Len(pat) - 1) = pat
        first == FindFirst(Len(s), At)
    IN  IF first = 0 THEN s
        ELSE SubSeq(s, 1, first - 1) \o SubSeq(s, first + Len(pat), Len(s))

\* source is a token index, 0 when the caller passes none
getLabel(tokens, token, src) ==
    LET label == IF token.identifier # <<>> THEN token.identifier ELSE token.image
    IN  IF src # 0 /\ tokens[src].namespace # <<>>
           /\ StartsWith(label, tokens[src].namespace)
        THEN RemoveFirst(label, tokens[src].namespace \o <<".">>)
        ELSE label

-----------------------------------------------------------------------------
(* qLangServer.ts *)

\* Array.prototype.filter over token indices, order kept
FilterIdx(n, P(_)) ==
    LET f[i \in 0..n] ==
            IF i = 0 THEN <<>>
            ELSE IF P(i) THEN Append(f[i - 1], i) ELSE f[i - 1]
    IN  f[n]

\* the accumulation without the find: every candidate is pushed
Dedup_NoFind(tokens, cands, acc) == acc \o cands

\* completions.find(item.identifier === token.identifier) || push
RECURSIVE Dedup(_, _, _)
Dedup(tokens, cands, acc) ==
    IF cands = <<>> THEN acc
    ELSE LET t == Head(cands)
             seen == \E k \in 1..Len(acc) :
                        tokens[acc[k]].identifier = tokens[t].identifier
         IN  Dedup(tokens, Tail(cands), IF seen THEN acc ELSE Append(acc, t))

\* parse that falls back to an open document when the requested one is
\* not known
parse_FallsBack(uri) ==
    IF uri \in DOMAIN documents THEN documents[uri] ELSE documents["known"]

parse(uri) == IF uri \in DOMAIN documents THEN documents[uri] ELSE <<>>

\* the guard without the test of the source's identifier kind
noSource_IgnoresUnassignable(tokens, src) == src = 0

\* the guard of findIdentifiers: a source that yields no result
noSource(tokens, src) ==
    src = 0 \/ tokens[src].identifierKind = "Unassignable"

\* the filters of findIdentifiers; s is the source token, i a token index
\* the local filter without the scope comparison
refLocalMatch_AnyScope(tokens, s, i) ==
    /\ tokens[i].tokenType = "Identifier"
    /\ tokens[i].identifierKind # "Unassignable"
    /\ tokens[i].identifier = s.identifier

\* the local filter without the comparison of the identifier
refLocalMatch_AnyName(tokens, s, i) ==
    /\ tokens[i].tokenType = "Identifier"
    /\ tokens[i].identifierKind # "Unassignable"
    /\ tokens[i].scope.id = s.scope.id

refLocalMatch(tokens, s, i) ==
    /\ tokens[i].tokenType = "Identifier"
    /\ tokens[i].identifierKind # "Unassignable"
    /\ tokens[i].identifier = s.identifier
    /\ tokens[i].scope.id = s.scope.id

\* the global filter without the exclusion of shadowing locals
refGlobalMatch_KeepsLocals(tokens, s, i) ==
    /\ tokens[i].tokenType = "Identifier"
    /\ tokens[i].identifierKind # "Unassignable"
    /\ tokens[i].identifier = s.identifier

\* the global filter without the test of the identifier kind
refGlobalMatch_KeepsUnassignable(tokens, s, i) ==
    /\ tokens[i].tokenType = "Identifier"
    /\ tokens[i].identifier = s.identifier
    /\ ~isLocal(tokens, tokens[i])

refGlobalMatch(tokens, s, i) ==
    /\ tokens[i].tokenType = "Identifier"
    /\ tokens[i].identifierKind # "Unassignable"
    /\ tokens[i].identifier = s.identifier
    /\ ~isLocal(tokens, tokens[i])

defLocalMatch(tokens, s, i) ==
    /\ tokens[i].kind = "Assignment"
    /\ tokens[i].identifierKind # "Unassignable"
    /\ tokens[i].identifier = s.identifier
    /\ tokens[i].scope.id = s.scope.id

\* the global definition filter without the exclusion of shadowing locals
defGlobalMatch_KeepsLocals(tokens, s, i) ==
    /\ tokens[i].kind = "Assignment"
    /\ tokens[i].identifierKind # "Unassignable"
    /\ tokens[i].identifier = s.identifier

defGlobalMatch(tokens, s, i) ==
    /\ tokens[i].kind = "Assignment"
    /\ tokens[i].identifierKind # "Unassignable"
    /\ tokens[i].identifier = s.identifier
    /\ ~isLocal(tokens, tokens[i])

\* the completion filter without the scope comparison
completionMatch_AnyScope(tokens, s, i) ==
    /\ tokens[i].kind = "Assignment"
    /\ tokens[i].identifierKind # "Unassignable"
    /\ (StartsWith(tokens[i].identifier, <<".">>)
        \/ tokens[i].namespace = s.namespace)

completionMatch(tokens, s, i) ==
    /\ tokens[i].kind = "Assignment"
    /\ tokens[i].identifierKind # "Unassignable"
    /\ (StartsWith(tokens[i].identifier, <<".">>)
        \/ tokens[i].namespace = s.namespace)
    /\ (tokens[i].scope.id = 0 \/ tokens[i].scope.id = s.scope.id)

\* the result is a sequence of token indices
findIdentifiers(kind, tokens, src) ==
    IF noSource(tokens, src) THEN <<>>
    ELSE
      LET s == tokens[src]
          n == Len(tokens)
          RefLocal(i) == refLocalMatch(tokens, s, i)
          RefGlobal(i) == refGlobalMatch(tokens, s, i)
          DefLocal(i) == defLocalMatch(tokens, s, i)
          DefGlobal(i) == defGlobalMatch(tokens, s, i)
          Compl(i) == completionMatch(tokens, s, i)
      IN  CASE kind \in {"Rename", "Reference"} ->
                  IF isLocal(tokens, s) THEN FilterIdx(n, RefLocal)
                  ELSE FilterIdx(n, RefGlobal)
            [] kind = "Definition" ->
                  IF isLocal(tokens, s) THEN FilterIdx(n, DefLocal)
                  ELSE FilterIdx(n, DefGlobal)
            [] kind = "Completion" ->
                  Dedup(tokens, FilterIdx(n, Compl), <<>>)

\* Location.create(textDocument.uri, rangeFromToken(token)) for each token
Locations(uri, tokens, idxs) ==
    [k \in 1..Len(idxs) |->
        [uri |-> uri, range |-> rangeFromToken(tokens[idxs[k]])]]

referencesResult(uri, position) ==
    LET tokens == parse(uri)
        src == positionToToken(tokens, position)
    IN  [kind |-> "locations",
         items |-> Locations(uri, tokens,
                             findIdentifiers("Reference", tokens, src))]

definitionResult(uri, position) ==
    LET tokens == parse(uri)
        src == positionToToken(tokens, position)
    IN  [kind |-> "locations",
         items |-> Locations(uri, tokens,
                             findIdentifiers("Definition", tokens, src))]

\* rename without the null result: an edit with no text edits
renameResult_NeverNull(uri, position, newName) ==
    LET tokens == parse(uri)
        src == positionToToken(tokens, position)
        idxs == findIdentifiers("Rename", tokens, src)
    IN  [kind |-> "edit", uri |-> uri,
         items |-> [k \in 1..Len(idxs) |->
                      [range |-> rangeFromToken(tokens[idxs[k]]),
                       newText |-> newName]]]

renameResult(uri, position, newName) ==
    LET tokens == parse(uri)
        src == positionToToken(tokens, position)
        idxs == findIdentifiers("Rename", tokens, src)
        edits == [k \in 1..Len(idxs) |->
                    [range |-> rangeFromToken(tokens[idxs[k]]),
                     newText |-> newName]]
    IN  IF Len(edits) = 0 THEN [kind |-> "null"]
        ELSE [kind |-> "edit", uri |-> uri, items |-> edits]

completionResult(uri, position) ==
    LET tokens == parse(uri)
        src == positionToToken(tokens, position)
        idxs == findIdentifiers("Completion", tokens, src)
    IN  [kind |-> "completions",
         items |-> [k \in 1..Len(idxs) |->
                      [label |-> getLabel(tokens, tokens[idxs[k]], src),
                       kind |-> IF tokens[idxs[k]].lambda.id # 0
                                THEN "Function" ELSE "Variable"]]]

\* the top-level filter without the test of the scope
topLevelMatch_AnyScope(tokens, i) ==
    tokens[i].kind = "Assignment"

\* token.kind === TokenKind.Assignment && !token.scope
topLevelMatch(tokens, i) ==
    /\ tokens[i].kind = "Assignment"
    /\ tokens[i].scope.id = 0

\* the child filter without the test that the child has a scope
childMatch_NoScopeTest(tokens, t, i) ==
    /\ tokens[i].scope.id = t.lambda.id
    /\ tokens[i].kind = "Assignment"

\* child.scope && child.scope === token.lambda && child.kind === Assignment
childMatch(tokens, t, i) ==
    /\ tokens[i].scope.id # 0
    /\ tokens[i].scope.id = t.lambda.id
    /\ tokens[i].kind = "Assignment"

\* the nested symbols of the top-level token t
childSymbols(tokens, t) ==
    LET Child(i) == childMatch(tokens, t, i)
        idxs == FilterIdx(Len(tokens), Child)
    IN  [c \in 1..Len(idxs) |->
            [name |-> tokens[idxs[c]].image,
             kind |-> IF tokens[idxs[c]].identifierKind = "Argument"
                      THEN "Array" ELSE "Variable",
             range |-> rangeFromToken(tokens[idxs[c]]),
             selectionRange |-> rangeFromToken(tokens[idxs[c]])]]

\* the top-level tokens of the outline, as token indices
topLevel(tokens) ==
    LET Top(i) == topLevelMatch(tokens, i)
    IN  FilterIdx(Len(tokens), Top)

documentSymbolResult(uri) ==
    LET tokens == parse(uri)
        idxs == topLevel(tokens)
    IN  [kind |-> "symbols",
         items |-> [k \in 1..Len(idxs) |->
                      [name |-> getLabel(tokens, tokens[idxs[k]], 0),
                       kind |-> IF tokens[idxs[k]].lambda.id # 0
                                THEN "Object" ELSE "Variable",
                       range |-> rangeFromToken(tokens[idxs[k]]),
                       selectionRange |-> rangeFromToken(tokens[idxs[k]]),
                       children |-> childSymbols(tokens, tokens[idxs[k]])]]]

\* DataSourcesPanel.dataSourceFile before the first render
NoFile == ""

NoPosition == [line |-> 0, character |-> 0]

NoRequest == [method |-> "none", uri |-> "", position |-> NoPosition,
              newName |-> <<>>]

NoResponse == [kind |-> "none"]

Idle == request = NoRequest

\* A handler runs to completion: the request it served, the token it
\* resolved at the cursor, the tokens findIdentifiers gave it and the value
\* it returns.  It leaves the documents alone.
Handle(method, uri, position, newName, kind, result) ==
    /\ request' = [method |-> method, uri |-> uri, position |-> position,
                   newName |-> newName]
    /\ source' = positionToToken(parse(uri), position)
    /\ found' = findIdentifiers(kind, parse(uri), source')
    /\ response' = result
    /\ UNCHANGED <<documents, extension>>

onReferences(uri, position) ==
    /\ Idle
    /\ Handle("references", uri, position, <<>>, "Reference",
           referencesResult(uri, position))

onDefinition(uri, position) ==
    /\ Idle
    /\ Handle("definition", uri, position, <<>>, "Definition",
           definitionResult(uri, position))

onRenameRequest(uri, position, newName) ==
    /\ Idle
    /\ Handle("rename", uri, position, newName, "Rename",
           renameResult(uri, position, newName))

onCompletion(uri, position) ==
    /\ Idle
    /\ Handle("completion", uri, position, <<>>, "Completion",
           completionResult(uri, position))

\* the outline takes no position: no cursor token is resolved; found holds
\* the tokens that passed the top-level filter
onDocumentSymbol(uri) ==
    /\ Idle
    /\ request' = [method |-> "documentSymbol", uri |-> uri,
                   position |-> NoPosition, newName |-> <<>>]
    /\ source' = 0
    /\ found' = topLevel(parse(uri))
    /\ response' = documentSymbolResult(uri)
    /\ UNCHANGED <<documents, extension>>

\* the connection returns the handler's value to the host; the server is
\* ready for the next request
Respond ==
    /\ ~Idle
    /\ request' = NoRequest
    /\ source' = 0
    /\ found' = <<>>
    /\ response' = NoResponse
    /\ UNCHANGED <<documents, extension>>

\* a direct call of the exported isLocal on token i of a document
callIsLocal(uri, i) ==
    /\ Idle
    /\ i \in 1..Len(parse(uri))
    /\ request' = [method |-> "isLocal", uri |-> uri, position |-> NoPosition,
                   newName |-> <<>>]
    /\ source' = i
    /\ found' = <<>>
    /\ response' = [kind |-> "boolean",
                    value |-> isLocal(parse(uri), parse(uri)[i])]
    /\ UNCHANGED <<documents, extension>>

-----------------------------------------------------------------------------
(* linter/checks.ts *)

\* The token predicates the rules import from the parser.
inParam(token) == token.identifierKind = "Argument"

assigned(token) == token.kind = "Assignment"

assignable(token) == token.identifierKind # "Unassignable"

\* the enclosing lambda, NoScope for none
inLambda(token) == token.scope

identifier(token) == token.identifier

\* target is before token in the source: by line, then by column
ordered(target, token) ==
    \/ target.startLine < token.startLine
    \/ /\ target.startLine = token.startLine
       /\ target.startColumn < token.startColumn

\* the argument of tokens.find in unusedParam and unusedVar: target is a
\* read of token's name in token's lambda
readOf(token, target) ==
    /\ ~assigned(target)
    /\ assignable(target)
    /\ inLambda(target) = inLambda(token)
    /\ identifier(target) = identifier(token)

\* unusedParam with the reads of any lambda taken as uses
unusedParam_AnyLambdaRead(tokens) ==
    LET Unused(i) ==
            /\ inParam(tokens[i])
            /\ assigned(tokens[i])
            /\ assignable(tokens[i])
            /\ ~\E j \in 1..Len(tokens) :
                    /\ ~assigned(tokens[j])
                    /\ assignable(tokens[j])
                    /\ identifier(tokens[j]) = identifier(tokens[i])
    IN  FilterIdx(Len(tokens), Unused)

\* the result is a sequence of token indices
unusedParam(tokens) ==
    LET Unused(i) ==
            /\ inParam(tokens[i])
            /\ assigned(tokens[i])
            /\ assignable(tokens[i])
            /\ ~\E j \in 1..Len(tokens) : readOf(tokens[i], tokens[j])
    IN  FilterIdx(Len(tokens), Unused)

\* unusedVar without the search for a read
unusedVar_IgnoresReads(tokens) ==
    LET Unused(i) ==
            /\ ~inParam(tokens[i])
            /\ inLambda(tokens[i]) # NoScope
            /\ assigned(tokens[i])
            /\ assignable(tokens[i])
    IN  FilterIdx(Len(tokens), Unused)

\* unusedVar without the test of the parameter
unusedVar_AnyKind(tokens) ==
    LET Unused(i) ==
            /\ inLambda(tokens[i]) # NoScope
            /\ assigned(tokens[i])
            /\ assignable(tokens[i])
            /\ ~\E j \in 1..Len(tokens) : readOf(tokens[i], tokens[j])
    IN  FilterIdx(Len(tokens), Unused)

unusedVar(tokens) ==
    LET Unused(i) ==
            /\ ~inParam(tokens[i])
            /\ inLambda(tokens[i]) # NoScope
            /\ assigned(tokens[i])
            /\ assignable(tokens[i])
            /\ ~\E j \in 1..Len(tokens) : readOf(tokens[i], tokens[j])
    IN  FilterIdx(Len(tokens), Unused)

\* declaredAfterUse without the test of the order
declaredAfterUse_AnyOrder(tokens) ==
    LET Declared(i) ==
            /\ ~inParam(tokens[i])
            /\ assigned(tokens[i])
            /\ assignable(tokens[i])
        Used(i) ==
            \E j \in 1..Len(tokens) : readOf(tokens[i], tokens[j])
        Late(i) == Declared(i) /\ Used(i)
    IN  FilterIdx(Len(tokens), Late)

declaredAfterUse(tokens) ==
    LET Declared(i) ==
            /\ ~inParam(tokens[i])
            /\ assigned(tokens[i])
            /\ assignable(tokens[i])
        Used(i) ==
            \E j \in 1..Len(tokens) :
                /\ readOf(tokens[i], tokens[j])
                /\ ordered(tokens[j], tokens[i])
        Late(i) == Declared(i) /\ Used(i)
    IN  FilterIdx(Len(tokens), Late)

\* the rules by name
check(rule, tokens) ==
    CASE rule = "unusedParam" -> unusedParam(tokens)
      [] rule = "unusedVar" -> unusedVar(tokens)
      [] rule = "declaredAfterUse" -> declaredAfterUse(tokens)

\* a rule that filters the array it is given in place: the document is
\* left with the tokens the rule returns
callCheck_InPlace(rule, uri) ==
    /\ Idle
    /\ request' = [method |-> rule, uri |-> uri, position |-> NoPosition,
                   newName |-> <<>>]
    /\ source' = 0
    /\ found' = check(rule, parse(uri))
    /\ response' = [kind |-> "tokens",
                    items |-> [k \in 1..Len(found') |-> parse(uri)[found'[k]]]]
    /\ documents' = [u \in DOMAIN documents |->
                       IF u = uri THEN response'.items ELSE documents[u]]
    /\ UNCHANGED extension

\* a direct call of an exported rule on the tokens of a document: found
\* holds the indices of the tokens it returns, the response the tokens
callCheck(rule, uri) ==
    /\ Idle
    /\ request' = [method |-> rule, uri |-> uri, position |-> NoPosition,
                   newName |-> <<>>]
    /\ source' = 0
    /\ found' = check(rule, parse(uri))
    /\ response' = [kind |-> "tokens",
                    items |-> [k \in 1..Len(found') |-> parse(uri)[found'[k]]]]
    /\ UNCHANGED <<documents, extension>>

-----------------------------------------------------------------------------
(* Specification Spec: one known document whose tokens vary in form and    *)
(* scope, laid out on one line; every query at every token and off them.   *)

\* cursors on line 0: the first character of every token slot and one
\* past the last slot
Cursors == {[line |-> 0, character |-> 2 * (i - 1)] : i \in 1..(MaxTokens + 1)}

Requests == ({"known"} \X Cursors) \cup {<<"unknown", NoPosition>>}

IdleInit ==
    /\ request = NoRequest
    /\ source = 0
    /\ found = <<>>
    /\ response = NoResponse
    /\ panels = <<>>
    /\ currentPanel = 0
    /\ dataSourceFile = NoFile
    /\ channels = <<>>
    /\ current = 0

Init ==
    /\ \E k \in 1..MaxTokens :
         \E forms \in [1..k -> TokenForms({<<"x">>, OtherName})] :
            documents = [u \in {"known"} |-> LaidOut(forms)]
    /\ IdleInit

Next ==
    \/ \E r \in Requests : onReferences(r[1], r[2])
    \/ \E r \in Requests : onDefinition(r[1], r[2])
    \/ \E r \in Requests, n \in NewNames : onRenameRequest(r[1], r[2], n)
    \/ \E r \in Requests : onCompletion(r[1], r[2])
    \/ Respond

Spec == Init /\ [][Next]_vars

-----------------------------------------------------------------------------
(* Specification SpecImplicit: documents over the three implicit names,    *)
(* read or assigned in any scope; the reference, definition and rename     *)
(* queries.                                                                *)

ImplicitForms ==
    {<<"Identifier", k, "None", n, n, sc>> :
        k \in {"Assignment", "Reference"}, n \in ImplicitNames, sc \in Scopes}

InitImplicit ==
    /\ \E k \in 1..MaxTokens :
         \E forms \in [1..k -> ImplicitForms] :
            documents = [u \in {"known"} |-> LaidOut(forms)]
    /\ IdleInit

NextImplicit ==
    \/ \E r \in Requests : onReferences(r[1], r[2])
    \/ \E r \in Requests : onDefinition(r[1], r[2])
    \/ \E r \in Requests, n \in NewNames : onRenameRequest(r[1], r[2], n)
    \/ Respond

SpecImplicit == InitImplicit /\ [][NextImplicit]_vars

-----------------------------------------------------------------------------
(* Specification SpecLocal: isLocal as a function of the token sequence    *)
(* and the target, over the implicit names and one other name.             *)

LocalForms ==
    {<<"Identifier", k, "None", n, n, sc>> :
        k \in {"Assignment", "Reference"},
        n \in ImplicitNames \cup {OtherName}, sc \in Scopes}

InitLocal ==
    /\ \E k \in 1..MaxTokens :
         \E forms \in [1..k -> LocalForms] :
            documents = [u \in {"known"} |-> LaidOut(forms)]
    /\ IdleInit

NextLocal ==
    \/ \E i \in 1..MaxTokens : callIsLocal("known", i)
    \/ Respond

SpecLocal == InitLocal /\ [][NextLocal]_vars

-----------------------------------------------------------------------------
(* Specification SpecSpan: a document of two global reads of one name,     *)
(* the first with any span (several lines, missing fields), the second     *)
(* one character wide or without span fields; every query at every cursor. *)

ReadForm == <<"Identifier", "Reference", "None", OtherName, OtherName, NoScope>>

\* start and end in order wherever both are present
OrderedSpan(span) ==
    /\ (span[1] # 0 /\ span[3] # 0) => span[1] <= span[3]
    /\ (OrOne(span[1]) = OrOne(span[3]) /\ span[2] # 0 /\ span[4] # 0)
          => span[2] <= span[4]

\* spans with every field present
FullSpans ==
    {span \in (1..MaxLine) \X (1..MaxColumn) \X (1..MaxLine) \X (1..MaxColumn) :
        OrderedSpan(span)}

\* spans with a field missing
PartSpans ==
    {span \in (0..MaxLine) \X (0..MaxColumn) \X (0..MaxLine) \X (0..MaxColumn) :
        OrderedSpan(span) /\ \E f \in 1..4 : span[f] = 0}

\* one character wide, or with no span field at all
CharSpans == {<<l, c, l, c>> : l \in 1..MaxLine, c \in 1..MaxColumn}
                \cup {<<0, 0, 0, 0>>}

SpanCursors == {[line |-> l, character |-> c] :
                    l \in 0..MaxLine, c \in 0..(MaxColumn + 1)}

SpanDoc(s1, s2) ==
    [u \in {"known"} |-> <<MkToken(ReadForm, s1), MkToken(ReadForm, s2)>>]

InitSpan ==
    /\ \/ \E s1 \in FullSpans, s2 \in CharSpans : documents = SpanDoc(s1, s2)
       \/ \E s1 \in PartSpans, s2 \in CharSpans : documents = SpanDoc(s1, s2)
    /\ IdleInit

NextSpan ==
    \/ \E c \in SpanCursors : onReferences("known", c)
    \/ \E c \in SpanCursors : onDefinition("known", c)
    \/ \E c \in SpanCursors, n \in NewNames : onRenameRequest("known", c, n)
    \/ \E c \in SpanCursors : onCompletion("known", c)
    \/ Respond

SpecSpan == InitSpan /\ [][NextSpan]_vars

-----------------------------------------------------------------------------
(* Specification SpecCompletion: assignments and reads of names that are   *)
(* plain, qualified by the namespace or globally qualified, at any scope,  *)
(* some of them opening a lambda; the completion query at every cursor.    *)

\* the namespace set by "\d .n"
Namespace == <<".", "n">>

\* a name of the namespace, fully qualified: ".n.a"
Qualified == Namespace \o <<".">> \o OtherName

\* a globally qualified name of another namespace whose text starts with
\* the namespace's and holds its dotted prefix further on: ".nn.n.a"
Nested == <<".", "n", "n">> \o Namespace \o <<".">> \o OtherName

\* a token of the form <<kind, identifierKind, identifier, image,
\* namespace, scope, lambda>>
MkSymbol(form, span) ==
    [tokenType |-> "Identifier", kind |-> form[1], identifierKind |-> form[2],
     identifier |-> form[3], image |-> form[4], namespace |-> form[5],
     scope |-> form[6], lambda |-> form[7],
     startLine |-> span[1], startColumn |-> span[2],
     endLine |-> span[3], endColumn |-> span[4]]

Symbols(forms) == [i \in 1..Len(forms) |-> MkSymbol(forms[i], SlotSpan(i))]

CompletionForms ==
    \* a plain name assigned or read outside a namespace, at any scope
         {<<k, "None", OtherName, OtherName, <<>>, sc, NoScope>> :
              k \in {"Assignment", "Reference"}, sc \in Scopes}
    \* a plain name assigned or read inside the namespace
    \cup {<<k, "None", OtherName, OtherName, Namespace, NoScope, NoScope>> :
              k \in {"Assignment", "Reference"}}
    \* a qualified name of the namespace, assigned a value or a lambda,
    \* written in the namespace or outside it
    \cup {<<"Assignment", "None", Qualified, Qualified, ns, NoScope, l>> :
              ns \in {<<>>, Namespace}, l \in {NoScope} \cup Lambdas}
    \* a globally qualified name of another namespace
    \cup {<<"Assignment", "None", Nested, Nested, <<>>, NoScope, NoScope>>}
    \* an assignment target that may not be assigned
    \cup {<<"Assignment", "Unassignable", OtherName, OtherName, <<>>, NoScope,
            NoScope>>}

InitCompletion ==
    /\ \E k \in 1..MaxTokens :
         \E forms \in [1..k -> CompletionForms] :
            documents = [u \in {"known"} |-> Symbols(forms)]
    /\ IdleInit

NextCompletion ==
    \/ \E r \in Requests : onCompletion(r[1], r[2])
    \/ Respond

SpecCompletion == InitCompletion /\ [][NextCompletion]_vars

-----------------------------------------------------------------------------
(* Specification SpecOutline: assignments at the top level, some opening   *)
(* a lambda, parameters and locals inside the lambdas, reads, and a        *)
(* literal used as an assignment target; the outline of the document.      *)

OutlineForms ==
    \* a plain name assigned at the top level a value or a lambda
         {<<"Assignment", "None", OtherName, OtherName, <<>>, NoScope, l>> :
              l \in {NoScope} \cup Lambdas}
    \* a plain name assigned in the namespace: its identifier is qualified
    \cup {<<"Assignment", "None", Qualified, OtherName, Namespace, NoScope, l>> :
              l \in {NoScope} \cup Lambdas}
    \* a parameter or a local assigned inside a lambda
    \cup {<<"Assignment", ik, OtherName, OtherName, <<>>, sc, NoScope>> :
              ik \in {"Argument", "None"}, sc \in Lambdas}
    \* a lambda assigned to a local inside a lambda
    \cup {<<"Assignment", "None", OtherName, OtherName, <<>>,
            [id |-> 2, nullary |-> FALSE], [id |-> 1, nullary |-> TRUE]>>}
    \* reads
    \cup {<<"Reference", "None", OtherName, OtherName, <<>>, sc, NoScope>> :
              sc \in Scopes}
    \* a literal as assignment target: no identifier
    \cup {<<"Assignment", "Unassignable", NoId, <<"1">>, <<>>, NoScope, NoScope>>}

InitOutline ==
    /\ \E k \in 1..MaxTokens :
         \E forms \in [1..k -> OutlineForms] :
            documents = [u \in {"known"} |-> Symbols(forms)]
    /\ IdleInit

NextOutline ==
    \/ \E u \in {"known", "unknown"} : onDocumentSymbol(u)
    \/ Respond

SpecOutline == InitOutline /\ [][NextOutline]_vars

-----------------------------------------------------------------------------
(* Specification SpecLint: documents of one or two lines with parameters,  *)
(* locals and globals assigned and read in and outside two lambdas; the    *)
(* scope rules of the linter called on the document's tokens.              *)

Rules == {"unusedParam", "unusedVar", "declaredAfterUse"}

\* a reserved word
Reserved == <<"i", "f">>

LintForms ==
    \* a name assigned or read, at any scope
         {<<"Identifier", k, "None", OtherName, OtherName, sc>> :
              k \in {"Assignment", "Reference"}, sc \in Scopes}
    \* a second name assigned or read in the lambda with parameters
    \cup {<<"Identifier", k, "None", <<"b">>, <<"b">>,
            [id |-> 2, nullary |-> FALSE]>> :
              k \in {"Assignment", "Reference"}}
    \* a declared parameter, assigned or read in its lambda
    \cup {<<"Identifier", k, "Argument", OtherName, OtherName,
            [id |-> 2, nullary |-> FALSE]>> :
              k \in {"Assignment", "Reference"}}
    \* an implicit parameter, assigned or read in the nullary lambda
    \cup {<<"Identifier", k, "Argument", <<"x">>, <<"x">>,
            [id |-> 1, nullary |-> TRUE]>> :
              k \in {"Assignment", "Reference"}}
    \* a reserved word as assignment target, at the top level or in a lambda
    \cup {<<"Identifier", "Assignment", "Unassignable", Reserved, Reserved, sc>> :
              sc \in {NoScope, [id |-> 2, nullary |-> FALSE]}}
    \* a literal as assignment target
    \cup {<<"Literal", "Assignment", "Unassignable", NoId, <<"1">>, NoScope>>}

\* the slot of token i when the first `first` tokens are on line 1 and the
\* others on line 2
SlotOn(i, first) ==
    IF i <= first THEN <<1, 2 * i - 1, 1, 2 * i - 1>>
    ELSE <<2, 2 * (i - first) - 1, 2, 2 * (i - first) - 1>>

InitLint ==
    /\ \E k \in 1..MaxTokens :
         \E forms \in [1..k -> LintForms] :
            \E first \in 1..k :
               documents = [u \in {"known"} |->
                              [i \in 1..k |-> MkToken(forms[i], SlotOn(i, first))]]
    /\ IdleInit

NextLint ==
    \/ \E rule \in Rules : callCheck(rule, "known")
    \/ Respond

SpecLint == InitLint /\ [][NextLint]_vars

-----------------------------------------------------------------------------
(* Specification SpecServer: one open document and every operation on it   *)
(* and on a document the server does not know: the outline, the four       *)
(* position queries and the scope rules of the linter, in any order.       *)

ServerForms ==
    \* a name assigned at the top level a value or a lambda
         {<<"Assignment", "None", OtherName, OtherName, <<>>, NoScope, l>> :
              l \in {NoScope, [id |-> 2, nullary |-> FALSE]}}
    \* a parameter or a local assigned inside the lambda
    \cup {<<"Assignment", ik, OtherName, OtherName, <<>>,
            [id |-> 2, nullary |-> FALSE], NoScope>> :
              ik \in {"Argument", "None"}}
    \* reads of the name
    \cup {<<"Reference", "None", OtherName, OtherName, <<>>, sc, NoScope>> :
              sc \in {NoScope, [id |-> 2, nullary |-> FALSE]}}
    \* a qualified name assigned in the namespace
    \cup {<<"Assignment", "None", Qualified, OtherName, Namespace, NoScope,
            NoScope>>}
    \* a literal as assignment target
    \cup {<<"Assignment", "Unassignable", NoId, <<"1">>, <<>>, NoScope, NoScope>>}

InitServer ==
    /\ \E k \in 1..MaxTokens :
         \E forms \in [1..k -> ServerForms] :
            documents = [u \in {"known"} |-> Symbols(forms)]
    /\ IdleInit

NextServer ==
    \/ \E u \in {"known", "unknown"} : onDocumentSymbol(u)
    \/ \E r \in Requests : onReferences(r[1], r[2])
    \/ \E r \in Requests : onDefinition(r[1], r[2])
    \/ \E r \in Requests, n \in NewNames : onRenameRequest(r[1], r[2], n)
    \/ \E r \in Requests : onCompletion(r[1], r[2])
    \/ \E rule \in Rules, u \in {"known", "unknown"} : callCheck(rule, u)
    \/ Respond

SpecServer == InitServer /\ [][NextServer]_vars

-----------------------------------------------------------------------------
(* Claims *)

\* the tokens the served request was answered from
Toks == parse(request.uri)

Served(methods) == request.method \in methods

FoundSet == {found[k] : k \in 1..Len(found)}

ImplicitIn(t) == t.identifier \in ImplicitNames /\ t.scope.nullary

AssignedInScopeOf(tokens, t) ==
    \E i \in 1..Len(tokens) :
        /\ tokens[i].kind = "Assignment"
        /\ tokens[i].scope = t.scope
        /\ tokens[i].identifier = t.identifier

\* C1: isLocal(tokens, target) is true if and only if target has a scope and
\* either target is named x, y or z in a nullary lambda, or some token of
\* the sequence is an Assignment with the same scope and the same
\* identifier; without a scope it is false.
C1_IsLocalIff ==
    Served({"isLocal"}) =>
        LET t == Toks[source]
        IN  /\ response.value <=>
                 (t.scope # NoScope /\ (ImplicitIn(t) \/ AssignedInScopeOf(Toks, t)))
            /\ t.scope = NoScope => ~response.value

\* a call that is true by the assignment rule alone, in a document that
\* also holds an implicit local and a token with a scope that is not local
C1_Witness ==
    /\ Served({"isLocal"})
    /\ response.value
    /\ ~ImplicitIn(Toks[source])
    /\ \E i, j \in 1..Len(Toks) :
          /\ ImplicitIn(Toks[i]) /\ ~AssignedInScopeOf(Toks, Toks[i])
          /\ Toks[j].scope # NoScope /\ ~isLocal(Toks, Toks[j])

\* the source of the served query, where one was resolved
Src == Toks[source]

SameScopeAndName(i) ==
    Toks[i].scope = Src.scope /\ Toks[i].identifier = Src.identifier

Candidate(i) ==
    Toks[i].tokenType = "Identifier" /\ Toks[i].identifierKind # "Unassignable"

\* the found tokens are distinct and in document order
FoundInOrder == \A k \in 1..(Len(found) - 1) : found[k] < found[k + 1]

\* C2 as stated: when the source of a Reference or Rename query is Local,
\* the result is exactly the set of tokens with the same scope reference
\* and the same identifier as the source.
C2_AsStated ==
    (Served({"references", "rename"}) /\ source # 0 /\ isLocal(Toks, Src)) =>
        FoundSet = {i \in 1..Len(Toks) : SameScopeAndName(i)}

\* C2 (amended): when the source of a Reference or Rename query is Local and
\* not Unassignable, the result is exactly the identifier tokens that are
\* not Unassignable and have the same scope reference and the same
\* identifier as the source; no token of another scope is returned.
C2_LocalSameScope ==
    (Served({"references", "rename"}) /\ source # 0 /\ isLocal(Toks, Src)
        /\ Src.identifierKind # "Unassignable") =>
        /\ FoundSet = {i \in 1..Len(Toks) : Candidate(i) /\ SameScopeAndName(i)}
        /\ FoundInOrder
        /\ \A i \in FoundSet : Toks[i].scope = Src.scope

\* a Local source with two occurrences found, while a same-named identifier
\* of another scope is in the document
C2_Witness ==
    /\ Served({"references", "rename"}) /\ source # 0 /\ isLocal(Toks, Src)
    /\ Src.identifierKind # "Unassignable"
    /\ Len(found) >= 2
    /\ \E i \in 1..Len(Toks) :
          /\ Candidate(i)
          /\ Toks[i].identifier = Src.identifier
          /\ Toks[i].scope # Src.scope

\* C3 as stated: when the source of a Reference or Rename query is not
\* Local, the result is exactly the set of tokens with the same identifier
\* that are not Local within their own scope.
C3_AsStated ==
    (Served({"references", "rename"}) /\ source # 0 /\ ~isLocal(Toks, Src)) =>
        FoundSet = {i \in 1..Len(Toks) :
                      Toks[i].identifier = Src.identifier /\ ~isLocal(Toks, Toks[i])}

\* C3 (amended): when the source of a Reference or Rename query is not Local
\* and not Unassignable, the result is exactly the identifier tokens that
\* are not Unassignable, have the source's identifier and are not Local
\* within their own scope; a same-named shadowing local is never returned.
C3_GlobalExcludesLocals ==
    (Served({"references", "rename"}) /\ source # 0 /\ ~isLocal(Toks, Src)
        /\ Src.identifierKind # "Unassignable") =>
        /\ FoundSet = {i \in 1..Len(Toks) :
                         /\ Candidate(i)
                         /\ Toks[i].identifier = Src.identifier
                         /\ ~isLocal(Toks, Toks[i])}
        /\ FoundInOrder
        /\ \A i \in FoundSet : ~isLocal(Toks, Toks[i])

\* a source that is not Local with two occurrences found, one of them in a
\* lambda, while a same-named shadowing local is in the document
C3_Witness ==
    /\ Served({"references", "rename"}) /\ source # 0 /\ ~isLocal(Toks, Src)
    /\ Src.identifierKind # "Unassignable"
    /\ Len(found) >= 2
    /\ \E i \in FoundSet : Toks[i].scope # NoScope
    /\ \E i \in 1..Len(Toks) :
          /\ Candidate(i)
          /\ Toks[i].identifier = Src.identifier
          /\ isLocal(Toks, Toks[i])

\* the Assignment-role tokens of a sequence of token indices
AssignmentsOf(idxs) ==
    LET IsAssignment(i) == Toks[i].kind = "Assignment"
    IN  SelectSeq(idxs, IsAssignment)

\* the locations of the tokens, as onReferences and onDefinition map them
LocationsOf(idxs) == Locations(request.uri, Toks, idxs)

\* C4: the Definition result is the Reference result for the same source
\* restricted to Assignment-role tokens: every Definition token is a
\* Reference token and every Assignment-role Reference token is a
\* Definition token.
C4_DefinitionIsAssignedReferences ==
    /\ Served({"definition"}) =>
          /\ found = AssignmentsOf(findIdentifiers("Reference", Toks, source))
          /\ response.items =
                LocationsOf(AssignmentsOf(findIdentifiers("Reference", Toks, source)))
          /\ \A k \in 1..Len(response.items) :
                \E j \in 1..Len(referencesResult(request.uri, request.position).items) :
                    referencesResult(request.uri, request.position).items[j]
                        = response.items[k]
    /\ Served({"references"}) =>
          /\ AssignmentsOf(found) = findIdentifiers("Definition", Toks, source)
          /\ LocationsOf(AssignmentsOf(found))
                = definitionResult(request.uri, request.position).items

\* a Definition query that finds an assignment while the Reference result
\* for the same source also holds a read, and the document holds a
\* same-named assignment that neither returns
C4_Witness ==
    /\ Served({"definition"})
    /\ Len(found) >= 1
    /\ Len(findIdentifiers("Reference", Toks, source)) > Len(found)
    /\ \E i \in 1..Len(Toks) :
          /\ Toks[i].kind = "Assignment"
          /\ Toks[i].identifier = Src.identifier
          /\ i \notin FoundSet

\* C5: for the same document and cursor, Rename gives one text edit per
\* token of the Reference result, each at that token's mapped range and
\* carrying the requested new name, and gives null exactly when that
\* candidate set is empty.
C5_RenameEditsReferences ==
    Served({"rename"}) =>
        LET refs == referencesResult(request.uri, request.position).items
        IN  IF Len(refs) = 0
            THEN response = [kind |-> "null"]
            ELSE /\ response.kind = "edit"
                 /\ response.uri = request.uri
                 /\ Len(response.items) = Len(refs)
                 /\ \A k \in 1..Len(refs) :
                       /\ response.items[k].range = refs[k].range
                       /\ response.items[k].range = rangeFromToken(Toks[found[k]])
                       /\ response.items[k].newText = request.newName

\* a rename of two occurrences
C5_Witness ==
    /\ Served({"rename"})
    /\ response.kind = "edit"
    /\ Len(response.items) >= 2

\* a rename with nothing to edit, at a token
C5_WitnessNull ==
    /\ Served({"rename"})
    /\ source # 0
    /\ response.kind = "null"

\* C6: no token whose identifier kind is Unassignable appears in the result
\* of a Reference, Definition, Rename or Completion query.
C6_NoUnassignableFound ==
    Served({"references", "definition", "rename", "completion"}) =>
        /\ \A k \in 1..Len(found) : Toks[found[k]].identifierKind # "Unassignable"
        /\ response.kind # "null" => Len(response.items) = Len(found)
        /\ response.kind = "null" => found = <<>>

\* a query that finds a token while an Unassignable token with the source's
\* identifier is in the document
C6_Witness ==
    /\ Served({"references", "definition", "rename", "completion"})
    /\ Len(found) >= 1
    /\ \E i \in 1..Len(Toks) :
          /\ Toks[i].identifierKind = "Unassignable"
          /\ Toks[i].identifier = Src.identifier
          /\ Toks[i].scope = Src.scope

\* C7: if no token is resolved at the position, or the resolved token is
\* Unassignable, then Reference, Definition and Completion return an empty
\* list and Rename returns null.
C7_NoSourceEmptyResult ==
    (/\ Served({"references", "definition", "rename", "completion"})
     /\ (source = 0 \/ Src.identifierKind = "Unassignable")) =>
        /\ found = <<>>
        /\ Served({"references", "definition"}) =>
              response = [kind |-> "locations", items |-> <<>>]
        /\ Served({"completion"}) =>
              response = [kind |-> "completions", items |-> <<>>]
        /\ Served({"rename"}) => response = [kind |-> "null"]

\* a query at an Unassignable token, in a document that holds an assignable
\* token of the same name
C7_Witness ==
    /\ Served({"references", "definition", "rename", "completion"})
    /\ source # 0
    /\ Src.identifierKind = "Unassignable"
    /\ \E i \in 1..Len(Toks) :
          /\ Candidate(i)
          /\ Toks[i].kind = "Assignment"
          /\ Toks[i].identifier = Src.identifier

\* a query at a position of a known document where no token is
C7_WitnessNoToken ==
    /\ Served({"references", "definition", "rename", "completion"})
    /\ request.uri = "known"
    /\ source = 0

\* a position is within a range: by line first, by character only on the
\* range's first and last line
Contains(r, pos) ==
    /\ \/ r.start.line < pos.line
       \/ r.start.line = pos.line /\ r.start.character <= pos.character
    /\ \/ pos.line < r.end.line
       \/ pos.line = r.end.line /\ pos.character <= r.end.character

Queries == {"references", "definition", "rename", "completion"}

\* C8: positionToToken returns a token exactly when some token's mapped span
\* contains the cursor, and the token it returns is one whose span contains
\* the cursor, also for tokens that span several lines.
C8_ResolvesContainingToken ==
    Served(Queries) =>
        /\ source # 0 <=>
              \E i \in 1..Len(Toks) :
                  Contains(rangeFromToken(Toks[i]), request.position)
        /\ source # 0 => Contains(rangeFromToken(Src), request.position)

\* C9: every range produced from a token is start = (startLine-1,
\* startColumn-1), end = (endLine-1, endColumn), the end column not
\* decremented, and no line or start character is negative, for 1-based or
\* missing span fields.
C9_RangeMapping ==
    (Served(Queries) /\ response.kind # "null") =>
        \A k \in 1..Len(found) :
            LET t == Toks[found[k]]
                r == IF response.kind = "completions"
                     THEN rangeFromToken(t)
                     ELSE response.items[k].range
            IN  /\ (t.startLine >= 1 /\ t.startColumn >= 1
                        /\ t.endLine >= 1 /\ t.endColumn >= 1) =>
                      r = [start |-> [line |-> t.startLine - 1,
                                      character |-> t.startColumn - 1],
                           end |-> [line |-> t.endLine - 1,
                                    character |-> t.endColumn]]
                /\ r.start.line >= 0 /\ r.start.character >= 0
                /\ r.end.line >= 0 /\ r.end.character >= 1

\* locations returned for a token of several lines with all its span fields
\* and for a token with a missing span field
C9_Witness ==
    /\ Served({"references", "rename"})
    /\ response.kind # "null"
    /\ \E k \in 1..Len(found) :
          /\ Toks[found[k]].startLine >= 1 /\ Toks[found[k]].startColumn >= 2
          /\ Toks[found[k]].endLine > Toks[found[k]].startLine
          /\ Toks[found[k]].endColumn >= 1
    /\ \E k \in 1..Len(found) :
          Toks[found[k]].startLine = 0 /\ Toks[found[k]].startColumn = 0

\* C10: a token named x, y or z whose scope is a nullary lambda is Local even
\* when the sequence holds no Assignment of that name in that scope, so a
\* Reference, Definition or Rename query started from a token of the same
\* name that is not Local never returns it.
C10_ImplicitNamesLocal ==
    /\ \A i \in 1..Len(Toks) : ImplicitIn(Toks[i]) => isLocal(Toks, Toks[i])
    /\ (Served({"references", "definition", "rename"}) /\ source # 0
            /\ (\/ Src.scope = NoScope
                \/ ~ImplicitIn(Src) /\ ~AssignedInScopeOf(Toks, Src))) =>
          \A k \in 1..Len(found) : ~ImplicitIn(Toks[found[k]])

\* a query from a global token named z that finds a token, in a document
\* with a read of z in the nullary lambda and no assignment of z there
C10_Witness ==
    /\ Served({"references", "definition", "rename"}) /\ source # 0
    /\ Src.scope = NoScope
    /\ Src.identifier = <<"z">>
    /\ Len(found) >= 1
    /\ \E i \in 1..Len(Toks) :
          /\ ImplicitIn(Toks[i])
          /\ Toks[i].identifier = <<"z">>
          /\ ~AssignedInScopeOf(Toks, Toks[i])

\* a token the completion of the served cursor token may offer: an
\* Assignment that is not Unassignable, global or of the cursor token's very
\* scope, and globally qualified or of the cursor token's namespace
Offered(i) ==
    /\ Toks[i].kind = "Assignment"
    /\ Toks[i].identifierKind # "Unassignable"
    /\ (Toks[i].scope = NoScope \/ Toks[i].scope = Src.scope)
    /\ \/ Toks[i].identifier # <<>> /\ Head(Toks[i].identifier) = "."
       \/ Toks[i].namespace = Src.namespace

\* a completion served from a cursor token that may be assigned
Completing ==
    Served({"completion"}) /\ source # 0 /\ Src.identifierKind # "Unassignable"

\* C11: the Completion candidates for a cursor token are exactly the
\* Assignment tokens that are not Unassignable, whose scope is absent or the
\* cursor token's very scope, and whose identifier starts with a dot or
\* whose namespace equals the cursor token's: every token found is one of
\* them, every one of them is found or has its identifier found, and no
\* Assignment of a different lambda than the cursor's is found.
C11_CompletionCandidates ==
    Completing =>
        /\ \A i \in FoundSet : Offered(i)
        /\ \A i \in 1..Len(Toks) :
              Offered(i) =>
                 \E j \in FoundSet : Toks[j].identifier = Toks[i].identifier
        /\ \A i \in FoundSet : Toks[i].scope \in {NoScope, Src.scope}

\* a completion inside a lambda that offers a local of that lambda and a
\* global, in a document with an assignment inside another lambda
C11_Witness ==
    /\ Completing
    /\ Src.scope # NoScope
    /\ \E i, j \in FoundSet : Toks[i].scope = Src.scope /\ Toks[j].scope = NoScope
    /\ \E i \in 1..Len(Toks) :
          /\ Toks[i].kind = "Assignment"
          /\ Toks[i].identifierKind # "Unassignable"
          /\ Toks[i].scope \notin {NoScope, Src.scope}

\* C12: the Completion result never holds two candidates with the same
\* identifier; the candidate kept for an identifier is the first qualifying
\* token of the sequence, and the kept candidates are in the order of their
\* first occurrence.
C12_CompletionDistinct ==
    Served({"completion"}) =>
        /\ \A k, l \in 1..Len(found) :
              k # l => Toks[found[k]].identifier # Toks[found[l]].identifier
        /\ \A k \in 1..Len(found) :
              \A i \in 1..(found[k] - 1) :
                 Offered(i) => Toks[i].identifier # Toks[found[k]].identifier
        /\ FoundInOrder

\* a completion of two identifiers, one of them assigned twice where the
\* cursor token can see it
C12_Witness ==
    /\ Completing
    /\ Len(found) >= 2
    /\ \E i \in 1..Len(Toks) :
          /\ Offered(i)
          /\ i \notin FoundSet
          /\ \E j \in FoundSet : j < i /\ Toks[j].identifier = Toks[i].identifier

\* the name without the namespace's dotted prefix at its front
StripFront(name, namespace) ==
    IF namespace # <<>> /\ StartsWith(name, namespace \o <<".">>)
    THEN SubSeq(name, Len(namespace) + 2, Len(name))
    ELSE name

\* C13: the label of each Completion item is the candidate's identifier with
\* the cursor token's namespace followed by a dot stripped from its front
\* and nothing else altered; its kind is Function when the candidate token
\* defines a lambda and Variable otherwise.
C13_LabelStripsPrefix ==
    Served({"completion"}) =>
        /\ Len(response.items) = Len(found)
        /\ \A k \in 1..Len(found) :
              /\ response.items[k].label
                    = StripFront(Toks[found[k]].identifier, Src.namespace)
              /\ response.items[k].kind
                    = IF Toks[found[k]].lambda # NoScope THEN "Function"
                      ELSE "Variable"

\* the Assignment tokens without a scope
ScopelessAssignments ==
    {i \in 1..Len(Toks) : Toks[i].kind = "Assignment" /\ Toks[i].scope = NoScope}

\* the outline entries stand for the tokens of found, one each, in order
EntryPerFound ==
    /\ Len(response.items) = Len(found)
    /\ \A k \in 1..Len(found) :
          /\ response.items[k].range = rangeFromToken(Toks[found[k]])
          /\ response.items[k].selectionRange = rangeFromToken(Toks[found[k]])

\* C14 as stated: the Outline has exactly one top-level entry for each
\* Assignment token that has no scope, in token order, and none for any
\* other token; each entry is labeled by the token's namespace-stripped
\* identifier and kinded Function if the token opens a lambda and Variable
\* otherwise.
C14_AsStated ==
    Served({"documentSymbol"}) =>
        /\ FoundSet = ScopelessAssignments
        /\ FoundInOrder
        /\ EntryPerFound
        /\ \A k \in 1..Len(found) :
              /\ response.items[k].name
                    = StripFront(Toks[found[k]].identifier,
                                 Toks[found[k]].namespace)
              /\ response.items[k].kind
                    = IF Toks[found[k]].lambda # NoScope THEN "Function"
                      ELSE "Variable"

\* C14 (amended): the Outline has exactly one top-level entry for each
\* Assignment token that has no scope, in token order, and none for any
\* other token; each entry is labeled by the token's identifier in full, the
\* namespace not stripped (by its image when it has no identifier), and
\* kinded Object if the token opens a lambda and Variable otherwise.
C14_OutlineTopLevel ==
    Served({"documentSymbol"}) =>
        /\ FoundSet = ScopelessAssignments
        /\ FoundInOrder
        /\ EntryPerFound
        /\ \A k \in 1..Len(found) :
              /\ response.items[k].name
                    = IF Toks[found[k]].identifier # <<>>
                      THEN Toks[found[k]].identifier
                      ELSE Toks[found[k]].image
              /\ response.items[k].kind
                    = IF Toks[found[k]].lambda # NoScope THEN "Object"
                      ELSE "Variable"

\* an outline of two entries, one opening a lambda and one with a
\* qualified identifier, of a document with an assignment inside a lambda
C14_Witness ==
    /\ Served({"documentSymbol"})
    /\ Len(response.items) = 2
    /\ \E k \in 1..2 : Toks[found[k]].lambda # NoScope
    /\ \E k \in 1..2 : Toks[found[k]].identifier = Qualified
    /\ \E i \in 1..Len(Toks) :
          Toks[i].kind = "Assignment" /\ Toks[i].scope # NoScope

\* the Assignment tokens whose scope is the lambda that token t opens, in
\* token order
AssignmentsIn(t) ==
    LET Inside(i) == Toks[i].kind = "Assignment" /\ Toks[i].scope = t.lambda
    IN  SelectSeq([i \in 1..Len(Toks) |-> i], Inside)

\* C15: the children of an Outline entry are exactly the Assignment tokens
\* whose scope is the lambda the entry's token opens, in token order, each
\* of the kind the outline gives a parameter (Array) when its identifier
\* kind is Argument and Variable otherwise; an entry that opens no lambda
\* has no children, and an Assignment token with a scope is never a
\* top-level entry.
C15_OutlineChildren ==
    Served({"documentSymbol"}) =>
        /\ EntryPerFound
        /\ \A k \in 1..Len(found) :
              LET t == Toks[found[k]]
                  children == response.items[k].children
              IN  IF t.lambda = NoScope THEN children = <<>>
                  ELSE /\ Len(children) = Len(AssignmentsIn(t))
                       /\ \A c \in 1..Len(children) :
                             LET child == Toks[AssignmentsIn(t)[c]]
                             IN  /\ children[c].range = rangeFromToken(child)
                                 /\ children[c].kind
                                       = IF child.identifierKind = "Argument"
                                         THEN "Array" ELSE "Variable"
        /\ \A i \in 1..Len(Toks) :
              (Toks[i].kind = "Assignment" /\ Toks[i].scope # NoScope) =>
                 /\ i \notin FoundSet
                 /\ \A k \in 1..Len(response.items) :
                       response.items[k].range # rangeFromToken(Toks[i])

\* an entry with a parameter and a local as its children
C15_Witness ==
    /\ Served({"documentSymbol"})
    /\ \E k \in 1..Len(response.items) :
          /\ Len(response.items[k].children) = 2
          /\ response.items[k].children[1].kind
                # response.items[k].children[2].kind

\* token j is a non-assignment occurrence of token i's identifier in token
\* i's scope
ReadInScope(i, j) ==
    /\ Toks[j].kind # "Assignment"
    /\ Toks[j].scope = Toks[i].scope
    /\ Toks[j].identifier = Toks[i].identifier

NeverRead(i) == ~\E j \in 1..Len(Toks) : ReadInScope(i, j)

\* the rule returned the tokens of found, in token order
ReturnsFound ==
    /\ FoundInOrder
    /\ response.items = [k \in 1..Len(found) |-> Toks[found[k]]]

C16_WitnessRead ==
    /\ Served({"unusedParam"})
    /\ found = <<>>
    /\ \E i \in 1..Len(Toks) :
          /\ Toks[i].kind = "Assignment"
          /\ Toks[i].identifierKind = "Argument"
          /\ ~NeverRead(i)

Precedes(j, i) ==
    \/ Toks[j].startLine < Toks[i].startLine
    \/ /\ Toks[j].startLine = Toks[i].startLine
       /\ Toks[j].startColumn < Toks[i].startColumn

ReadBefore(i) == \E j \in 1..Len(Toks) : ReadInScope(i, j) /\ Precedes(j, i)

C22_TokensUnchanged == [][documents' = documents]_vars

\* a rename that edits two tokens and a rule that returns a token have
\* been served from the document
C22_Witness ==
    \/ /\ Served({"rename"})
       /\ response.kind = "edit"
       /\ Len(response.items) >= 2
    \/ /\ Served(Rules)
       /\ Len(found) >= 1
       /\ Len(found) < Len(Toks)

\* the empty result of each operation
EmptyResult(method) ==
    CASE method \in {"references", "definition"} ->
              [kind |-> "locations", items |-> <<>>]
      [] method = "completion" -> [kind |-> "completions", items |-> <<>>]
      [] method = "documentSymbol" -> [kind |-> "symbols", items |-> <<>>]
      [] method = "rename" -> [kind |-> "null"]

UnknownServed ==
    Served(Queries \cup {"documentSymbol"}) /\ request.uri \notin DOMAIN documents

\* C28: a request for a document the server does not know is served from an
\* empty token sequence: Outline, Reference, Definition and Completion
\* return empty lists and Rename returns null, no token is resolved or
\* found, and the documents the server knows are left as they were.
C28_UnknownDocument ==
    /\ [](UnknownServed =>
            /\ parse(request.uri) = <<>>
            /\ source = 0
            /\ found = <<>>
            /\ response = EmptyResult(request.method))
    /\ [][(request'.uri \notin DOMAIN documents) => documents' = documents]_vars

\* a query for an unknown document at a position where the open document
\* has a token that may be renamed
C28_Witness ==
    /\ UnknownServed
    /\ Served({"rename"})
    /\ positionToToken(documents["known"], request.position) # 0
    /\ findIdentifiers("Rename", documents["known"],
                       positionToToken(documents["known"], request.position))
          # <<>>

\* the Reference result of the query whose source is token i
ReferencesOf(i) == findIdentifiers("Reference", Toks, i)

InReferencesOf(i) == {ReferencesOf(i)[k] : k \in 1..Len(ReferencesOf(i))}

\* C25: over the tokens that are Identifier-typed and not Unassignable, "B
\* is in the Reference result of source A" is an equivalence relation for a
\* fixed token sequence: the source is in its own result, every token of
\* the result has the source in its own result, and its result is the
\* same as the source's.
C25_ReferenceEquivalence ==
    (Served({"references"}) /\ source # 0 /\ Candidate(source)) =>
        /\ source \in FoundSet
        /\ \A b \in FoundSet :
              /\ Candidate(b)
              /\ source \in InReferencesOf(b)
              /\ ReferencesOf(b) = found

\* a Reference result of two tokens in a lambda, in a document with a
\* token of the same name that is not in the result
C25_Witness ==
    /\ Served({"references"}) /\ source # 0 /\ Candidate(source)
    /\ Len(found) = 2
    /\ Src.scope # NoScope
    /\ \E i \in 1..Len(Toks) :
          /\ Candidate(i)
          /\ i \notin FoundSet
          /\ Toks[i].identifier = Src.identifier

\* the tokens a rule returns for the served token sequence
Returned(rule) == {check(rule, Toks)[k] : k \in 1..Len(check(rule, Toks))}

\* C26: the three scope rules are mutually exclusive per token: no token is
\* returned by both unusedVar and declaredAfterUse, none by both
\* unusedParam and unusedVar, none by both unusedParam and
\* declaredAfterUse; every token a rule returns is an Assignment token of
\* the input sequence that is not Unassignable.
C26_RulesExclusive ==
    Served(Rules) =>
        /\ \A rule \in Rules \ {request.method} :
              FoundSet \cap Returned(rule) = {}
        /\ \A i \in FoundSet :
              /\ i \in 1..Len(Toks)
              /\ Toks[i].kind = "Assignment"
              /\ Toks[i].identifierKind # "Unassignable"
        /\ response.items = [k \in 1..Len(found) |-> Toks[found[k]]]

\* a document for which the rule called returns a token and
\* declaredAfterUse returns another
C26_Witness ==
    /\ Served(Rules \ {"declaredAfterUse"})
    /\ found # <<>>
    /\ Returned("declaredAfterUse") # {}

-----------------------------------------------------------------------------
(* The extension: DataSourcesPanel (src/panels/datasource.ts)              *)
(*                                                                         *)
(* panels is every webview panel created so far, in creation order; a      *)
(* DataSourcesPanel object and the webview panel it wraps are one entry,   *)
(* referred to by its index.  currentPanel = 0 is undefined.  A panel is   *)
(* open until it is disposed; it is listening while the registration of    *)
(* its onDidDispose callback is alive.  The code runs on one thread, so a  *)
(* call runs to completion, the callbacks it triggers included.            *)

DataSourceFiles == {"a", "b"}

\* vscode.window.createWebviewPanel("dataSource", datasourceFile.name, ...)
createWebviewPanel(title) ==
    [open |-> TRUE, listening |-> FALSE, title |-> title]

\* the constructor registers () => this.dispose() on the panel's
\* onDidDispose, the registration being kept in this._disposables
DataSourcesPanel(panel) == [panel EXCEPT !.listening = TRUE]

disposePanel_KeepsListeners(ps, p) ==
    [ps EXCEPT ![p].open = FALSE]

\* What dispose() does to the panels: this._panel.dispose() closes the
\* panel (the host fires onDidDispose inside that call, which re-enters
\* dispose() and finds the panel closed), and the loop over
\* this._disposables ends the registration of the callback.
disposePanel(ps, p) ==
    [ps EXCEPT ![p].open = FALSE, ![p].listening = FALSE]

ExtensionCall(method, uri, result) ==
    /\ Idle
    /\ request' = [method |-> method, uri |-> uri, position |-> NoPosition,
                   newName |-> <<>>]
    /\ source' = 0
    /\ found' = <<>>
    /\ response' = result
    /\ UNCHANGED documents

Void == [kind |-> "void"]

render_NoStore(datasourceFile) ==
    /\ Len(panels) < MaxPanels
    /\ dataSourceFile' = datasourceFile
    /\ panels' = Append(IF currentPanel # 0
                        THEN disposePanel(panels, currentPanel)
                        ELSE panels,
                        DataSourcesPanel(createWebviewPanel(datasourceFile)))
    /\ currentPanel' = 0
    /\ UNCHANGED <<channels, current>>

\* DataSourcesPanel.render(extensionUri, datasourceFile): the panel
\* currentPanel refers to, if any, is disposed, a panel is created and the
\* DataSourcesPanel built on it is stored in currentPanel
render(datasourceFile) ==
    /\ Len(panels) < MaxPanels
    /\ dataSourceFile' = datasourceFile
    /\ panels' = Append(IF currentPanel # 0
                        THEN disposePanel(panels, currentPanel)
                        ELSE panels,
                        DataSourcesPanel(createWebviewPanel(datasourceFile)))
    /\ currentPanel' = Len(panels')
    /\ UNCHANGED <<channels, current>>

callRender(datasourceFile) ==
    /\ ExtensionCall("render", datasourceFile, Void)
    /\ render(datasourceFile)

\* refresh() on the panel DataSourcesPanel.currentPanel refers to
refresh ==
    /\ currentPanel # 0
    /\ ExtensionCall("refresh", dataSourceFile, Void)
    /\ render(dataSourceFile)

\* dispose() on the panel DataSourcesPanel.currentPanel refers to
dispose ==
    /\ ExtensionCall("dispose", "", Void)
    /\ currentPanel # 0
    /\ currentPanel' = 0
    /\ panels' = disposePanel(panels, currentPanel)
    /\ UNCHANGED <<dataSourceFile, channels, current>>

\* The host delivers onDidDispose of panel p (the user closed it, or the
\* host reports a disposal) to the callback registered for it, which calls
\* dispose() on the DataSourcesPanel that wraps p.
onDidDispose(p) ==
    /\ ExtensionCall("onDidDispose", "", Void)
    /\ p \in 1..Len(panels)
    /\ panels[p].listening
    /\ currentPanel' = 0
    /\ panels' = disposePanel(panels, p)
    /\ UNCHANGED <<dataSourceFile, channels, current>>

-----------------------------------------------------------------------------
(* The extension: ExecutionConsole (src/utils/executionConsole.ts)         *)
(*                                                                         *)
(* channels is every output channel created so far; an ExecutionConsole    *)
(* and the channel it wraps are one entry, referred to by its index.       *)
(* current = 0 is undefined.                                               *)

\* ExecutionConsole.start(); the value returned is ExecutionConsole.current
start ==
    /\ IF current = 0
       THEN /\ Len(channels) < MaxChannels
            /\ channels' = Append(channels, [disposed |-> FALSE])
            /\ current' = Len(channels')
       ELSE UNCHANGED <<channels, current>>
    /\ ExtensionCall("start", "", [kind |-> "instance", value |-> current'])
    /\ UNCHANGED <<panels, currentPanel, dataSourceFile>>

consoleDispose_KeepsCurrent(i) ==
    /\ ExtensionCall("consoleDispose", "", Void)
    /\ i \in 1..Len(channels)
    /\ channels' = [channels EXCEPT ![i].disposed = TRUE]
    /\ UNCHANGED <<panels, currentPanel, dataSourceFile, current>>

\* dispose() on the ExecutionConsole i; start() hands the instance out, so
\* any instance created so far may be the one disposed
consoleDispose(i) ==
    /\ ExtensionCall("consoleDispose", "", Void)
    /\ i \in 1..Len(channels)
    /\ current' = 0
    /\ channels' = [channels EXCEPT ![i].disposed = TRUE]
    /\ UNCHANGED <<panels, currentPanel, dataSourceFile>>

\* The extension right after activation: no document is involved
InitExtension ==
    /\ documents = [u \in {} |-> <<>>]
    /\ IdleInit

NextExtension ==
    \/ \E f \in DataSourceFiles : callRender(f)
    \/ refresh
    \/ dispose
    \/ \E p \in 1..MaxPanels : onDidDispose(p)
    \/ start
    \/ \E i \in 1..MaxChannels : consoleDispose(i)
    \/ Respond

SpecExtension == InitExtension /\ [][NextExtension]_vars

-----------------------------------------------------------------------------
(* Claims about the extension *)

PanelDefined ==
    /\ currentPanel \in 1..Len(panels)
    /\ panels[currentPanel].open

C24_ReplacedPanelCallback ==
    /\ (Len(panels) > 0 /\ panels[Len(panels)].open)
          => currentPanel = Len(panels)
    /\ currentPanel # 0 => panels[currentPanel].open

\* three panels have been rendered, the earlier two are disposed, the last
\* call has returned and the newest panel is still open
C24_Witness ==
    /\ Idle
    /\ Len(panels) = 3
    /\ panels[3].open
    /\ ~panels[1].open
    /\ ~panels[2].open

\* C27: ExecutionConsole is a singleton across its lifecycle.  start
\* returns ExecutionConsole.current, an instance that was not disposed;
\* when an instance is current, start returns it and creates no channel;
\* when none is, start creates exactly one channel and one instance that
\* was never handed out before; after dispose current is undefined; and
\* current changes in no other call, so consecutive start calls return the
\* same instance.
C27_ConsoleSingleton ==
    /\ [](Served({"start"})
            => /\ response.value = current
               /\ current \in 1..Len(channels)
               /\ ~channels[current].disposed)
    /\ [](Served({"consoleDispose"}) => current = 0)
    /\ [][(request'.method = "start" /\ current # 0)
            => /\ response'.value = current
               /\ channels' = channels]_vars
    /\ [][(request'.method = "start" /\ current = 0)
            => /\ channels' = Append(channels, [disposed |-> FALSE])
               /\ response'.value = Len(channels')
               /\ response'.value \notin 1..Len(channels)]_vars
    /\ [][current' # current
            => request'.method \in {"start", "consoleDispose"}]_vars

\* start has been served a second instance after the first was disposed
C27_Witness ==
    /\ Served({"start"})
    /\ response.value = 2
    /\ channels[1].disposed

====
